---- MODULE Spec2Model ----
(***************************************************************************)
(* Model of archive_31_vers_pdf.py: the parallel download of a page range  *)
(* (main, telecharger_page) and the adaptive split of the downloaded pages *)
(* into size-bounded PDFs (creer_pdf_split).                               *)
(*                                                                         *)
(* Sizes are counted in Ko (1024 bytes).  The code computes in Mo with     *)
(* floats: taille_mo = bytes / 1024^2 and max_size_mb; every comparison    *)
(* and every int(...) of the code is written here on the same quantities   *)
(* multiplied by 1024, in exact integer arithmetic.                        *)
(***************************************************************************)
EXTENDS Integers, Sequences, FiniteSets, TLC

\* ------------------------------------------------------------------ bounds
MaxFichiers == 5    \* longest file list handed directly to creer_pdf_split
MaxPages    == 3    \* largest NB_PAGES of a run of main
MaxThreads  == 2    \* largest NB_THREADS of a run of main

\* --------------------------------------------------------- program constants
KO_PAR_PAGE   == 350      \* average page weight of the estimation
SEUIL_CONTENU == 10000    \* len(response.content) must exceed this
LARGEUR_NUM   == 4        \* width of {:04d} in the file name

\* ------------------------------------------------------------ input domains
\* size ceilings (max_size_mb * 1024) of the packer runs
Plafonds == {150, 350, 700, 1024}
\* the ceiling of a run of main: MAX_PDF_SIZE_MB = 25
PlafondsMain == {25 * 1024}
\* what a page file on disk decodes to: unreadable, or a page that weighs
\* ko once encoded in the PDF
Images == {[lisible |-> FALSE, ko |-> 0]}
            \cup {[lisible |-> TRUE, ko |-> k] : k \in {100, 250, 400}}
ImagesMain == {[lisible |-> FALSE, ko |-> 0], [lisible |-> TRUE, ko |-> 250]}
\* first pages of the runs of main
Debuts == {1, 9998}

VARIABLES
    pc,             \* position of the main thread
    EXEMPLE_URL,    \* the sample URL, as character codes
    pattern,        \* value returned by analyser_url
    dossier,        \* OUTPUT_DIR was created
    taches,         \* list of (page, url) prepared for the executor
    PAGE_DEBUT, NB_PAGES, NB_THREADS,   \* configuration of the run
    max_size_ko,    \* max_size_mb * 1024
    etat,           \* page -> state of its future in the executor
    file_attente,   \* work queue of the executor (pages, FIFO)
    reponse,        \* page -> what requests.get did for its URL
    resultat,       \* page -> value returned by telecharger_page
    tentatives,     \* page -> number of times telecharger_page ran for it
    fichiers,       \* list of downloaded file names
    erreurs,        \* list of (page, err)
    done,           \* progress counter of main
    disque,         \* file name -> image stored under that name
    pages_par_pdf, pdf_num, idx, pdfs_crees,   \* locals of creer_pdf_split
    lectures,       \* position in fichiers -> number of Image.open on it
    contenu         \* per created PDF, the positions of its pages

varsConfig == <<EXEMPLE_URL, PAGE_DEBUT, NB_PAGES, NB_THREADS, max_size_ko>>
varsUrl == <<pattern, dossier, taches>>
varsPool == <<etat, file_attente, reponse, resultat, tentatives>>
varsFetch == <<varsPool, erreurs, done>>
varsSplit == <<pages_par_pdf, pdf_num, idx, pdfs_crees, lectures, contenu>>
vars == <<pc, varsConfig, varsUrl, fichiers, disque, varsFetch, varsSplit>>

\* ---------------------------------------------------------------- helpers
RECURSIVE Chiffres(_)
\* decimal digits of n >= 0, as character codes
Chiffres(n) == IF n < 10 THEN <<48 + n>>
               ELSE Append(Chiffres(n \div 10), 48 + (n % 10))

RECURSIVE Zeros(_)
Zeros(k) == IF k <= 0 THEN <<>> ELSE <<48>> \o Zeros(k - 1)

\* "{:04d}".format(n): at least `largeur` characters, zero filled
FormatZero(n, largeur) == Zeros(largeur - Len(Chiffres(n))) \o Chiffres(n)

\* "page_{:04d}.jpg".format(page), as character codes.  os.path.join puts
\* the same output_dir in front of every name; it is left out.
NomFichier(page) ==
    <<112, 97, 103, 101, 95>> \o FormatZero(page, LARGEUR_NUM)
        \o <<46, 106, 112, 103>>

RECURSIVE Somme(_)
Somme(s) == IF s = <<>> THEN 0 ELSE Head(s) + Somme(Tail(s))

Min(a, b) == IF a <= b THEN a ELSE b

\* ------------------------------------------------------- creer_pdf_split
EstimationInitialeSansBorne(max_ko, n) == max_ko \div KO_PAR_PAGE

\* pages_par_pdf = int(max_size_mb * 1024 / 350), clamped to len(fichiers)
EstimationInitiale(max_ko, n) ==
    LET e == max_ko \div KO_PAR_PAGE
    IN  IF e >= n THEN n ELSE e

LotInverse(n, i, pages) ==
    [k \in 1..(Min(i + pages, n) - Min(i, n)) |-> Min(i + pages, n) + 1 - k]

\* positions (1-based) of fichiers[idx:idx + pages]
Lot(n, i, pages) ==
    [k \in 1..(Min(i + pages, n) - Min(i, n)) |-> i + k]

AjusterInverse(pages, max_ko, taille) ==
    IF taille * 10 > max_ko * 11
    THEN (pages * taille) \div max_ko
    ELSE IF taille * 10 < max_ko * 7
         THEN (pages * max_ko * 9) \div (taille * 10)
         ELSE pages

AjusterSansCroissance(pages, max_ko, taille) ==
    IF taille * 10 > max_ko * 11 THEN (pages * max_ko) \div taille
    ELSE pages

\* the adjustment of pages_par_pdf after a PDF of `taille` Ko
Ajuster(pages, max_ko, taille) ==
    IF taille * 10 > max_ko * 11
    THEN (pages * max_ko) \div taille
    ELSE IF taille * 10 < max_ko * 7
         THEN (pages * max_ko * 9) \div (taille * 10)
         ELSE pages

AvanceImages(lot, images) == Len(images)

\* idx += len(batch_files)
Avance(lot, images) == Len(lot)

SplitDebut ==
    /\ pc = "split_debut"
    /\ pages_par_pdf' = EstimationInitiale(max_size_ko, Len(fichiers))
    /\ pdf_num' = 1
    /\ idx' = 0
    /\ pdfs_crees' = <<>>
    /\ lectures' = [i \in 1..Len(fichiers) |-> 0]
    /\ contenu' = <<>>
    /\ pc' = "split_boucle"
    /\ UNCHANGED <<varsConfig, varsUrl, fichiers, disque, varsFetch>>

IterationNumeroteVide ==
    /\ pc = "split_boucle"
    /\ idx < Len(fichiers)
    /\ LET lot    == Lot(Len(fichiers), idx, pages_par_pdf)
           lus    == {lot[k] : k \in DOMAIN lot}
           ok(i)  == /\ fichiers[i] \in DOMAIN disque
                     /\ disque[fichiers[i]].lisible
           images == SelectSeq(lot, ok)
           taille == Somme([k \in DOMAIN images |-> disque[fichiers[images[k]]].ko])
       IN  /\ lectures' = [i \in DOMAIN lectures |->
                              IF i \in lus THEN lectures[i] + 1 ELSE lectures[i]]
           /\ IF images = <<>>
              THEN /\ idx' = idx + pages_par_pdf
                   /\ pdf_num' = pdf_num + 1
                   /\ UNCHANGED <<pages_par_pdf, pdfs_crees, contenu>>
              ELSE /\ pdfs_crees' = Append(pdfs_crees,
                          [num |-> pdf_num, taille |-> taille, pages |-> Len(images)])
                   /\ contenu' = Append(contenu, images)
                   /\ pages_par_pdf' = Ajuster(pages_par_pdf, max_size_ko, taille)
                   /\ idx' = idx + Avance(lot, images)
                   /\ pdf_num' = pdf_num + 1
    /\ UNCHANGED <<pc, varsConfig, varsUrl, fichiers, disque, varsFetch>>

\* one turn of the while loop
Iteration ==
    /\ pc = "split_boucle"
    /\ idx < Len(fichiers)
    /\ LET lot    == Lot(Len(fichiers), idx, pages_par_pdf)
           lus    == {lot[k] : k \in DOMAIN lot}
           ok(i)  == /\ fichiers[i] \in DOMAIN disque
                     /\ disque[fichiers[i]].lisible
           images == SelectSeq(lot, ok)
           taille == Somme([k \in DOMAIN images |-> disque[fichiers[images[k]]].ko])
       IN  /\ lectures' = [i \in DOMAIN lectures |->
                              IF i \in lus THEN lectures[i] + 1 ELSE lectures[i]]
           /\ IF images = <<>>
              THEN /\ idx' = idx + pages_par_pdf
                   /\ UNCHANGED <<pages_par_pdf, pdf_num, pdfs_crees, contenu>>
              ELSE /\ pdfs_crees' = Append(pdfs_crees,
                          [num |-> pdf_num, taille |-> taille, pages |-> Len(images)])
                   /\ contenu' = Append(contenu, images)
                   /\ pages_par_pdf' = Ajuster(pages_par_pdf, max_size_ko, taille)
                   /\ idx' = idx + Avance(lot, images)
                   /\ pdf_num' = pdf_num + 1
    /\ UNCHANGED <<pc, varsConfig, varsUrl, fichiers, disque, varsFetch>>

SplitRetour ==
    /\ pc = "split_boucle"
    /\ idx >= Len(fichiers)
    /\ pc' = "split_retour"
    /\ UNCHANGED <<varsConfig, varsUrl, fichiers, disque, varsFetch, varsSplit>>

\* ------------------------------------------------------ telecharger_page
Pages == PAGE_DEBUT..(PAGE_DEBUT + NB_PAGES - 1)

Aucun == <<>>     \* None in the place of a file name
SansErreur == [genre |-> "None", size |-> 0]

\* what requests.get and the write of the file can do for one page:
\* exc: requests.get raises; status, taille: status_code and
\* len(response.content); ecrit: open/write of the file does not raise;
\* image: what the received bytes decode to
ReponseException ==
    [exc |-> TRUE, status |-> 0, taille |-> 0, ecrit |-> FALSE,
     image |-> [lisible |-> FALSE, ko |-> 0]]
ReponsesRecues(images) ==
    {[exc |-> FALSE, status |-> 404, taille |-> SEUIL_CONTENU + 1, ecrit |-> TRUE,
      image |-> [lisible |-> FALSE, ko |-> 0]],
     [exc |-> FALSE, status |-> 200, taille |-> SEUIL_CONTENU, ecrit |-> TRUE,
      image |-> [lisible |-> FALSE, ko |-> 0]],
     [exc |-> FALSE, status |-> 200, taille |-> SEUIL_CONTENU + 1, ecrit |-> FALSE,
      image |-> [lisible |-> FALSE, ko |-> 0]]}
    \cup {[exc |-> FALSE, status |-> 200, taille |-> SEUIL_CONTENU + 1,
           ecrit |-> TRUE, image |-> im] : im \in images}
Reponses == {ReponseException} \cup ReponsesRecues(ImagesMain)

TelechargerPageSansStatut(page, r) ==
    IF r.exc
    THEN [page |-> page, filename |-> Aucun, err |-> [genre |-> "exception", size |-> 0]]
    ELSE IF r.taille > SEUIL_CONTENU
         THEN IF r.ecrit
              THEN [page |-> page, filename |-> NomFichier(page), err |-> SansErreur]
              ELSE [page |-> page, filename |-> Aucun,
                    err |-> [genre |-> "exception", size |-> 0]]
         ELSE [page |-> page, filename |-> Aucun,
               err |-> [genre |-> "size", size |-> r.taille]]

\* the tuple (page, filename, err) returned by telecharger_page when the
\* request and the write behave as r
TelechargerPage(page, r) ==
    IF r.exc
    THEN [page |-> page, filename |-> Aucun, err |-> [genre |-> "exception", size |-> 0]]
    ELSE IF r.status = 200 /\ r.taille > SEUIL_CONTENU
         THEN IF r.ecrit
              THEN [page |-> page, filename |-> NomFichier(page), err |-> SansErreur]
              ELSE [page |-> page, filename |-> Aucun,
                    err |-> [genre |-> "exception", size |-> 0]]
         ELSE [page |-> page, filename |-> Aucun,
               err |-> [genre |-> "size", size |-> r.taille]]

\* ------------------------------------------------ analyser_url, generer_url
EstChiffre(c) == c \in 48..57
TousChiffres(s) == \A i \in DOMAIN s : EstChiffre(s[i])
\* re.IGNORECASE on an ASCII letter
Minuscule(c) == IF c \in 65..90 THEN c + 32 ELSE c
EstHex(c) == c \in (48..57) \cup (65..70) \cup (97..102)
ValeurHex(c) == IF c \in 48..57 THEN c - 48
                ELSE IF c \in 65..70 THEN c - 55 ELSE c - 87

RECURSIVE Unquote(_)
\* requests.utils.unquote: every %XX with two hexadecimal digits becomes the
\* character of that code (ASCII codes only are used here)
Unquote(s) ==
    IF s = <<>> THEN <<>>
    ELSE IF Len(s) >= 3 /\ s[1] = 37 /\ EstHex(s[2]) /\ EstHex(s[3])
         THEN <<16 * ValeurHex(s[2]) + ValeurHex(s[3])>> \o Unquote(SubSeq(s, 4, Len(s)))
         ELSE <<s[1]>> \o Unquote(Tail(s))

\* lengths of group 1 for which ^(.*?)(\d{4})/([^/]+)(\d{4})(_\d{4}\.jpg)$
\* matches u: 4 digits, "/", a non-empty run without "/", then the 13 last
\* characters dddd_dddd.jpg
DebutsDossier(u) ==
    {i \in 0..(Len(u) - 19) :
        /\ \A k \in 1..i : u[k] # 10
        /\ TousChiffres(SubSeq(u, i + 1, i + 4))
        /\ u[i + 5] = 47
        /\ \A k \in (i + 6)..(Len(u) - 13) : u[k] # 47
        /\ TousChiffres(SubSeq(u, Len(u) - 12, Len(u) - 9))
        /\ u[Len(u) - 8] = 95
        /\ TousChiffres(SubSeq(u, Len(u) - 7, Len(u) - 4))
        /\ SubSeq(u, Len(u) - 3, Len(u)) = <<46, 106, 112, 103>>}

\* ^(.*?)(\d{4})(\.jpg)$ with re.IGNORECASE matches u
CorrespondSimple(u) ==
    /\ Len(u) >= 8
    /\ \A k \in 1..(Len(u) - 8) : u[k] # 10
    /\ TousChiffres(SubSeq(u, Len(u) - 7, Len(u) - 4))
    /\ [k \in 1..4 |-> Minuscule(u[Len(u) - 4 + k])] = <<46, 106, 112, 103>>

\* None in the place of a pattern
PatternAucun ==
    [type |-> "None", prefix |-> <<>>, middle |-> <<>>, suffix |-> <<>>, digits |-> 0]

\* the dict returned by analyser_url (middle is absent from the "simple"
\* dict; it is empty here)
AnalyserUrl(url) ==
    LET u == Unquote(url)
        D == DebutsDossier(u)
    IN  IF D # {}
        THEN LET i == CHOOSE x \in D : \A y \in D : x <= y
             IN  [type |-> "dossier",
                  prefix |-> SubSeq(u, 1, i),
                  middle |-> SubSeq(u, i + 6, Len(u) - 13),
                  suffix |-> SubSeq(u, Len(u) - 8, Len(u)),
                  digits |-> 4]
        ELSE IF CorrespondSimple(u)
             THEN [type |-> "simple",
                   prefix |-> SubSeq(u, 1, Len(u) - 8),
                   middle |-> <<>>,
                   suffix |-> SubSeq(u, Len(u) - 3, Len(u)),
                   digits |-> Len(SubSeq(u, Len(u) - 7, Len(u) - 4))]
             ELSE PatternAucun

\* generer_url(pattern, page)
GenererUrl(pat, page) ==
    IF pat.type = "dossier"
    THEN pat.prefix \o FormatZero(page, 4) \o <<47>> \o pat.middle
            \o FormatZero(page, 4) \o pat.suffix
    ELSE pat.prefix \o FormatZero(page, pat.digits) \o pat.suffix

\* sample URLs: h/d_0010/f_0010_0001.jpg, h/page0007.jpg, h/page.png
UrlDossier ==
    <<104, 47, 100, 95, 48, 48, 49, 48, 47, 102, 95, 48, 48, 49, 48,
      95, 48, 48, 48, 49, 46, 106, 112, 103>>
UrlSimple == <<104, 47, 112, 97, 103, 101, 48, 48, 48, 55, 46, 106, 112, 103>>
UrlInconnue == <<104, 47, 112, 97, 103, 101, 46, 112, 110, 103>>
UrlsMain == {UrlDossier, UrlSimple, UrlInconnue}

\* ------------------------------------------------------------------ main
\* pattern = analyser_url(EXEMPLE_URL); "if not pattern: return"
AnalyserInvalide ==
    /\ pc = "analyse"
    /\ AnalyserUrl(EXEMPLE_URL) = PatternAucun
    /\ pattern' = PatternAucun
    /\ pc' = "invalide"
    /\ UNCHANGED <<varsConfig, dossier, taches, fichiers, disque, varsFetch, varsSplit>>

AnalyserSansControle ==
    /\ pc = "analyse"
    /\ pattern' = AnalyserUrl(EXEMPLE_URL)
    /\ pc' = "taches"
    /\ UNCHANGED <<varsConfig, dossier, taches, fichiers, disque, varsFetch, varsSplit>>

\* the pattern is recognised: main goes on
Analyser ==
    /\ pc = "analyse"
    /\ AnalyserUrl(EXEMPLE_URL) # PatternAucun
    /\ pattern' = AnalyserUrl(EXEMPLE_URL)
    /\ pc' = "taches"
    /\ UNCHANGED <<varsConfig, dossier, taches, fichiers, disque, varsFetch, varsSplit>>

\* the list of tasks for range(PAGE_DEBUT, PAGE_DEBUT + NB_PAGES)
Taches(pat, debut, nb) ==
    [i \in 1..nb |-> [page |-> debut + i - 1, url |-> GenererUrl(pat, debut + i - 1)]]

\* os.makedirs(OUTPUT_DIR), taches = [...], fichiers = [], erreurs = []
Preparer ==
    /\ pc = "taches"
    /\ dossier' = TRUE
    /\ taches' = Taches(pattern, PAGE_DEBUT, NB_PAGES)
    /\ etat' = [p \in DOMAIN etat |-> "cree"]
    /\ pc' = "submit"
    /\ UNCHANGED <<varsConfig, pattern, fichiers, disque, file_attente, reponse,
                   resultat, tentatives, erreurs, done, varsSplit>>

EnCours == {p \in Pages : etat[p] = "en_cours"}

\* executor.submit(telecharger_page, t) for the next task of taches
Soumettre ==
    /\ pc = "submit"
    /\ \E p \in Pages :
        /\ etat[p] = "cree"
        /\ \A q \in Pages : q < p => etat[q] # "cree"
        /\ etat' = [etat EXCEPT ![p] = "attente"]
        /\ file_attente' = Append(file_attente, p)
    /\ UNCHANGED <<pc, varsConfig, varsUrl, fichiers, disque, reponse, resultat, tentatives,
                   erreurs, done, varsSplit>>

\* every task is submitted: done = 0 and the as_completed loop starts
DebutRecolte ==
    /\ pc = "submit"
    /\ \A p \in Pages : etat[p] # "cree"
    /\ done' = 0
    /\ pc' = "as_completed"
    /\ UNCHANGED <<varsConfig, varsUrl, fichiers, disque, varsPool, erreurs, varsSplit>>

DemarrerSansLimite(p) ==
    /\ pc \in {"submit", "as_completed"}
    /\ file_attente # <<>>
    /\ p = Head(file_attente)
    /\ file_attente' = Tail(file_attente)
    /\ etat' = [etat EXCEPT ![p] = "en_cours"]
    /\ tentatives' = [tentatives EXCEPT ![p] = @ + 1]
    /\ UNCHANGED <<pc, varsConfig, varsUrl, fichiers, disque, reponse, resultat, erreurs,
                   done, varsSplit>>

\* a free worker of the pool (max_workers = NB_THREADS) takes the oldest
\* queued task and calls telecharger_page
Demarrer(p) ==
    /\ pc \in {"submit", "as_completed"}
    /\ file_attente # <<>>
    /\ p = Head(file_attente)
    /\ Cardinality(EnCours) < NB_THREADS
    /\ file_attente' = Tail(file_attente)
    /\ etat' = [etat EXCEPT ![p] = "en_cours"]
    /\ tentatives' = [tentatives EXCEPT ![p] = @ + 1]
    /\ UNCHANGED <<pc, varsConfig, varsUrl, fichiers, disque, reponse, resultat, erreurs,
                   done, varsSplit>>

\* telecharger_page returns in its worker; on success the file is on disk.
\* A write that raises leaves the disk as it was.
Terminer(p, r) ==
    /\ pc \in {"submit", "as_completed"}
    /\ etat[p] = "en_cours"
    /\ LET res == TelechargerPage(p, r)
       IN  /\ resultat' = [resultat EXCEPT ![p] = res]
           /\ disque' = IF res.filename # Aucun
                        THEN (res.filename :> r.image) @@ disque
                        ELSE disque
    /\ reponse' = [reponse EXCEPT ![p] = r]
    /\ etat' = [etat EXCEPT ![p] = "fini"]
    /\ UNCHANGED <<pc, varsConfig, varsUrl, fichiers, file_attente, tentatives, erreurs,
                   done, varsSplit>>

RecolterSansErreurs(p) ==
    /\ pc = "as_completed"
    /\ etat[p] = "fini"
    /\ done' = done + 1
    /\ IF resultat[p].filename # Aucun
       THEN fichiers' = Append(fichiers, resultat[p].filename) /\ UNCHANGED erreurs
       ELSE UNCHANGED <<fichiers, erreurs>>
    /\ etat' = [etat EXCEPT ![p] = "recolte"]
    /\ UNCHANGED <<pc, varsConfig, varsUrl, disque, file_attente, reponse, resultat,
                   tentatives, varsSplit>>

\* one turn of "for future in as_completed(futures)"
Recolter(p) ==
    /\ pc = "as_completed"
    /\ etat[p] = "fini"
    /\ done' = done + 1
    /\ IF resultat[p].filename # Aucun
       THEN fichiers' = Append(fichiers, resultat[p].filename) /\ UNCHANGED erreurs
       ELSE erreurs' = Append(erreurs, <<resultat[p].page, resultat[p].err>>)
            /\ UNCHANGED fichiers
    /\ etat' = [etat EXCEPT ![p] = "recolte"]
    /\ UNCHANGED <<pc, varsConfig, varsUrl, disque, file_attente, reponse, resultat,
                   tentatives, varsSplit>>

FinRecoltePrecoce ==
    /\ pc = "as_completed"
    /\ \E p \in Pages : etat[p] = "recolte"
    /\ pc' = "bilan"
    /\ UNCHANGED <<varsConfig, varsUrl, fichiers, disque, varsFetch, varsSplit>>

\* every future was yielded: the loop and the with block end
FinRecolte ==
    /\ pc = "as_completed"
    /\ \A p \in Pages : etat[p] = "recolte"
    /\ pc' = "bilan"
    /\ UNCHANGED <<varsConfig, varsUrl, fichiers, disque, varsFetch, varsSplit>>

AbandonSiErreurs ==
    /\ pc = "bilan"
    /\ erreurs # <<>>
    /\ pc' = "abandon"
    /\ UNCHANGED <<varsConfig, varsUrl, fichiers, disque, varsFetch, varsSplit>>

\* "if not fichiers: return"
Abandon ==
    /\ pc = "bilan"
    /\ fichiers = <<>>
    /\ pc' = "abandon"
    /\ UNCHANGED <<varsConfig, varsUrl, fichiers, disque, varsFetch, varsSplit>>

RECURSIVE LexInf(_, _)
\* a < b for two Python strings given as character codes
LexInf(a, b) ==
    IF b = <<>> THEN FALSE
    ELSE IF a = <<>> THEN TRUE
    ELSE IF Head(a) # Head(b) THEN Head(a) < Head(b)
    ELSE LexInf(Tail(a), Tail(b))

\* fichiers.sort(), then the call of creer_pdf_split
Trier ==
    /\ pc = "bilan"
    /\ fichiers # <<>>
    /\ fichiers' = SortSeq(fichiers, LexInf)
    /\ pc' = "split_debut"
    /\ UNCHANGED <<varsConfig, varsUrl, disque, varsFetch, varsSplit>>

\* the summary, then os.remove(f) for every f of fichiers
Nettoyage ==
    /\ pc = "split_retour"
    /\ LET restants == DOMAIN disque \ {fichiers[i] : i \in DOMAIN fichiers}
       IN  disque' = [f \in restants |-> disque[f]]
    /\ pc' = "fin"
    /\ UNCHANGED <<varsConfig, varsUrl, fichiers, varsFetch, varsSplit>>

\* main at its first line
Init ==
    /\ pc = "analyse"
    /\ EXEMPLE_URL \in UrlsMain
    /\ pattern = PatternAucun
    /\ dossier = FALSE
    /\ taches = <<>>
    /\ PAGE_DEBUT \in Debuts
    /\ NB_PAGES \in 1..MaxPages
    /\ NB_THREADS \in 1..MaxThreads
    /\ max_size_ko \in PlafondsMain
    /\ etat = [p \in Pages |-> "absent"]
    /\ file_attente = <<>>
    /\ reponse = [p \in Pages |-> ReponseException]
    /\ resultat = [p \in Pages |-> [page |-> p, filename |-> Aucun, err |-> SansErreur]]
    /\ tentatives = [p \in Pages |-> 0]
    /\ fichiers = <<>>
    /\ erreurs = <<>>
    /\ done = 0
    /\ disque = [f \in {} |-> [lisible |-> FALSE, ko |-> 0]]
    /\ pages_par_pdf = 0 /\ pdf_num = 0 /\ idx = 0 /\ pdfs_crees = <<>>
    /\ lectures = <<>>
    /\ contenu = <<>>

Next ==
    \/ AnalyserInvalide
    \/ Analyser
    \/ Preparer
    \/ Soumettre
    \/ DebutRecolte
    \/ \E p \in Pages : Demarrer(p)
    \/ \E p \in Pages, r \in Reponses : Terminer(p, r)
    \/ \E p \in Pages : Recolter(p)
    \/ FinRecolte
    \/ Abandon
    \/ Trier
    \/ SplitDebut
    \/ Iteration
    \/ SplitRetour
    \/ Nettoyage

Spec == Init /\ [][Next]_vars

\* sample URLs made of a prefix (h/d_ or h%2Fd_), a run of digits, a joint
\* (/f_ or _ or nothing), a second run of digits and an ending
\* (_0001.jpg, .jpg, .JPG or .png)
PrefixesUrl == {<<104, 47, 100, 95>>, <<104, 37, 50, 70, 100, 95>>}
SuitesChiffres ==
    {FormatZero(7, 4), FormatZero(10, 4), FormatZero(7, 2), FormatZero(7, 6)}
JointsUrl == {<<47, 102, 95>>, <<95>>, <<>>}
FinsUrl == {<<95, 48, 48, 48, 49, 46, 106, 112, 103>>, <<46, 106, 112, 103>>,
            <<46, 74, 80, 71>>, <<46, 112, 110, 103>>}
Urls == {a \o b \o c \o d \o e :
            a \in PrefixesUrl, b \in SuitesChiffres, c \in JointsUrl,
            d \in SuitesChiffres, e \in FinsUrl}
\* first pages of the ranges, around the page numbers of the sample URLs
DebutsUrl == {7, 9}

\* main at its first line, for any of the sample URLs
InitUrl ==
    /\ pc = "analyse"
    /\ EXEMPLE_URL \in Urls
    /\ pattern = PatternAucun
    /\ dossier = FALSE
    /\ taches = <<>>
    /\ PAGE_DEBUT \in DebutsUrl
    /\ NB_PAGES \in 1..MaxPages
    /\ NB_THREADS = 1
    /\ max_size_ko \in PlafondsMain
    /\ etat = [p \in Pages |-> "absent"]
    /\ file_attente = <<>>
    /\ reponse = [p \in Pages |-> ReponseException]
    /\ resultat = [p \in Pages |-> [page |-> p, filename |-> Aucun, err |-> SansErreur]]
    /\ tentatives = [p \in Pages |-> 0]
    /\ fichiers = <<>>
    /\ erreurs = <<>>
    /\ done = 0
    /\ disque = [f \in {} |-> [lisible |-> FALSE, ko |-> 0]]
    /\ pages_par_pdf = 0 /\ pdf_num = 0 /\ idx = 0 /\ pdfs_crees = <<>>
    /\ lectures = <<>>
    /\ contenu = <<>>

\* the steps of main up to the list of tasks
NextUrl == AnalyserInvalide \/ Analyser \/ Preparer

SpecUrl == InitUrl /\ [][NextUrl]_vars

\* creer_pdf_split called on the sorted list of 1..MaxFichiers downloaded
\* page files
InitSplit ==
    /\ pc = "split_debut"
    /\ PAGE_DEBUT = 1 /\ NB_THREADS = 1
    /\ NB_PAGES \in 1..MaxFichiers
    /\ EXEMPLE_URL = UrlDossier
    /\ pattern = AnalyserUrl(EXEMPLE_URL)
    /\ dossier = TRUE
    /\ taches = Taches(pattern, PAGE_DEBUT, NB_PAGES)
    /\ max_size_ko \in Plafonds
    /\ etat = [p \in Pages |-> "recolte"]
    /\ file_attente = <<>>
    /\ \E im \in [Pages -> Images] :
        /\ reponse = [p \in Pages |->
                        [exc |-> FALSE, status |-> 200, taille |-> SEUIL_CONTENU + 1,
                         ecrit |-> TRUE, image |-> im[p]]]
        /\ disque = [f \in {NomFichier(p) : p \in Pages} |->
                        im[CHOOSE p \in Pages : NomFichier(p) = f]]
    /\ resultat = [p \in Pages |-> TelechargerPage(p, reponse[p])]
    /\ tentatives = [p \in Pages |-> 1]
    /\ fichiers = [i \in 1..NB_PAGES |-> NomFichier(i)]
    /\ erreurs = <<>>
    /\ done = NB_PAGES
    /\ pages_par_pdf = 0 /\ pdf_num = 0 /\ idx = 0 /\ pdfs_crees = <<>>
    /\ lectures = <<>>
    /\ contenu = <<>>

NextSplit == SplitDebut \/ Iteration \/ SplitRetour

SpecSplit == InitSplit /\ [][NextSplit]_vars

\* the loop is the only thread of control: it always takes its next step
SpecSplitFair == SpecSplit /\ WF_vars(NextSplit)

\* ------------------------------------------------ properties of the split
TousLisibles == \A i \in DOMAIN fichiers : disque[fichiers[i]].lisible
Illisibles == {i \in DOMAIN fichiers : ~disque[fichiers[i]].lisible}
PagesDesPdfs == Somme([k \in DOMAIN pdfs_crees |-> pdfs_crees[k].pages])

\* C1: creer_pdf_split terminates on every non-empty file list, every
\* positive ceiling and every measured size: the cursor reaches the end of
\* the list and the list of PDFs is returned.
C1_Termine == <>(pc = "split_retour")

\* C2: every recorded PDF of more than one page weighs at most the ceiling;
\* only a one-page PDF may exceed it.
C2_SousLePlafond ==
    \A k \in DOMAIN pdfs_crees :
        pdfs_crees[k].pages > 1 => pdfs_crees[k].taille <= max_size_ko

\* C3: at the return of creer_pdf_split the page counts of the PDFs add up
\* to the number of files minus the unreadable ones, every file was opened
\* in exactly one batch and no file is in two PDFs.
C3_Couverture ==
    pc = "split_retour" =>
        /\ PagesDesPdfs = Len(fichiers) - Cardinality(Illisibles)
        /\ \A i \in DOMAIN fichiers : lectures[i] = 1
        /\ \A i \in DOMAIN fichiers :
              Cardinality({k \in DOMAIN contenu :
                              \E j \in DOMAIN contenu[k] : contenu[k][j] = i}) <= 1

C3_Witness ==
    /\ pc = "split_retour"
    /\ Len(pdfs_crees) >= 2
    /\ Illisibles # {}
    /\ \E k \in DOMAIN pdfs_crees : pdfs_crees[k].pages >= 2

\* C4: a single readable file that alone weighs more than the ceiling gives,
\* for every ceiling, a return with exactly one PDF of exactly one page.
C4_PageSeule ==
    (/\ Len(fichiers) = 1
     /\ disque[fichiers[1]].lisible
     /\ disque[fichiers[1]].ko > max_size_ko)
    => <>(/\ pc = "split_retour"
          /\ Len(pdfs_crees) = 1
          /\ pdfs_crees[1].pages = 1)

\* 5 readable files of 250 Ko each under a ceiling of 1 Mo
C5_Scenario ==
    /\ Len(fichiers) = 5
    /\ max_size_ko = 1024
    /\ \A i \in DOMAIN fichiers : disque[fichiers[i]] = [lisible |-> TRUE, ko |-> 250]

\* C5 as stated: 5 readable files of 250 Ko under a ceiling of 1 Mo give
\* exactly one PDF holding the 5 pages.
C5_UnSeulPdf ==
    (C5_Scenario /\ pc = "split_retour") =>
        /\ Len(pdfs_crees) = 1
        /\ pdfs_crees[1].pages = 5

\* C5 (amended): 5 readable files of 250 Ko under a ceiling of 1 Mo give
\* exactly two PDFs, the first of 2 pages (500 Ko) and the second of 3 pages
\* (750 Ko).
C5_DeuxPdfs ==
    (C5_Scenario /\ pc = "split_retour") =>
        pdfs_crees = << [num |-> 1, taille |-> 500, pages |-> 2],
                        [num |-> 2, taille |-> 750, pages |-> 3] >>

C5_Witness == C5_Scenario /\ pc = "split_retour" /\ Len(pdfs_crees) = 2

\* C6: 5 readable files under a ceiling of 150 Ko: the call returns at least
\* 2 PDFs, each of at most 150 Ko x 1.1.
C6_PetitPlafond ==
    (Len(fichiers) = 5 /\ TousLisibles /\ max_size_ko = 150)
    => <>(/\ pc = "split_retour"
          /\ Len(pdfs_crees) >= 2
          /\ \A k \in DOMAIN pdfs_crees : pdfs_crees[k].taille * 10 <= 150 * 11)

\* ------------------------------------------------ properties of the fetch
Occurrences(p) ==
    Cardinality({i \in DOMAIN fichiers : fichiers[i] = NomFichier(p)})
        + Cardinality({j \in DOMAIN erreurs : erreurs[j][1] = p})

\* C7: whatever the order in which the workers finish, telecharger_page runs
\* at most once per task, and when the download stage ends it ran exactly
\* once per task, every page is exactly once in fichiers or in erreurs,
\* len(fichiers) + len(erreurs) = NB_PAGES and done = NB_PAGES.
C7_Partition ==
    /\ \A p \in Pages : tentatives[p] <= 1
    /\ pc = "bilan" =>
        /\ \A p \in Pages : tentatives[p] = 1 /\ Occurrences(p) = 1
        /\ Len(fichiers) + Len(erreurs) = NB_PAGES
        /\ done = NB_PAGES

C7_Witness ==
    /\ pc = "bilan"
    /\ NB_PAGES = 3
    /\ Len(fichiers) = 2
    /\ Len(erreurs) = 1
    /\ fichiers[1] = NomFichier(PAGE_DEBUT + 2)

\* the response makes telecharger_page succeed
Bonne(r) == ~r.exc /\ r.status = 200 /\ r.taille > SEUIL_CONTENU /\ r.ecrit
BonneDes10000(r) == ~r.exc /\ r.status = 200 /\ r.taille >= SEUIL_CONTENU /\ r.ecrit
Terminees == {p \in Pages : etat[p] \in {"fini", "recolte"}}
PagesEnErreur == {erreurs[j][1] : j \in DOMAIN erreurs}

\* C8 as stated: status 200 with at least 10000 bytes gives a success, the
\* rest a failure with a reason; at the end of the stage erreurs holds
\* exactly the pages whose response was not such a one.
C8_SeuilInclus ==
    /\ \A p \in Terminees :
          /\ (resultat[p].filename # Aucun) <=> BonneDes10000(reponse[p])
          /\ (resultat[p].filename = Aucun) => resultat[p].err # SansErreur
    /\ pc = "bilan" =>
          /\ PagesEnErreur = {p \in Pages : ~BonneDes10000(reponse[p])}
          /\ Len(fichiers) = NB_PAGES - Cardinality(PagesEnErreur)

\* C8 (amended): status 200 with MORE than 10000 bytes, written to the file
\* without an exception, gives a success with the bytes on disk under the
\* page's name (until the final cleanup removes them); any other status, 10000 bytes or fewer, or an exception gives
\* a failure with a reason; at the end of the stage erreurs holds exactly the
\* pages whose response was not such a one and fichiers the others.
C8_Classification ==
    /\ \A p \in Terminees :
          /\ (resultat[p].filename # Aucun) <=> Bonne(reponse[p])
          /\ (resultat[p].filename # Aucun) =>
                /\ resultat[p].filename = NomFichier(p)
                /\ pc # "fin" =>
                      /\ resultat[p].filename \in DOMAIN disque
                      /\ disque[resultat[p].filename] = reponse[p].image
          /\ (resultat[p].filename = Aucun) => resultat[p].err # SansErreur
    /\ pc = "bilan" =>
          /\ PagesEnErreur = {p \in Pages : ~Bonne(reponse[p])}
          /\ Len(fichiers) = NB_PAGES - Cardinality(PagesEnErreur)

C8_Witness ==
    /\ pc = "bilan"
    /\ NB_PAGES = 3
    /\ \E p, q, t \in Pages :
          /\ reponse[p].status = 404
          /\ ~reponse[q].exc /\ reponse[q].status = 200
              /\ reponse[q].taille = SEUIL_CONTENU
          /\ Bonne(reponse[t])
    /\ Len(fichiers) = 1
    /\ Len(erreurs) = 2

\* the page whose file name is f
PageDe(f) == CHOOSE p \in Pages : NomFichier(p) = f

\* C9: for every page range and every arrival order, the list given to
\* creer_pdf_split is in strictly increasing page order.
C9_TriParPage ==
    pc \in {"split_debut", "split_boucle", "split_retour", "fin"} =>
        \A i, j \in DOMAIN fichiers :
            i < j => PageDe(fichiers[i]) < PageDe(fichiers[j])

Echouees == {p \in Terminees : resultat[p].filename = Aucun}

\* C10: at every moment at most NB_THREADS tasks are running, and the
\* failure of a task stops no other task: when the stage ends every task
\* ran and returned its result, whatever failed.
C10_Parallelisme ==
    /\ Cardinality(EnCours) <= NB_THREADS
    /\ pc = "bilan" =>
          \A p \in Pages : etat[p] = "recolte" /\ tentatives[p] = 1
                              /\ resultat[p] = TelechargerPage(p, reponse[p])

C10_Witness ==
    /\ NB_THREADS = 2
    /\ Cardinality(EnCours) = 2
    /\ Echouees # {}
    /\ \E p \in Echouees : \A q \in EnCours : p < q

\* ------------------------------------------------- properties of main
\* C11: with no page downloaded the run ends without calling
\* creer_pdf_split and without any PDF; with at least one page downloaded the
\* run goes on to creer_pdf_split, whatever the number of failed pages.
C11_Politique ==
    [][/\ (pc = "bilan" /\ fichiers = <<>>) => pc' = "abandon"
       /\ (pc = "bilan" /\ fichiers # <<>>) => pc' = "split_debut"
       /\ pc' = "abandon" =>
            /\ fichiers' = <<>>
            /\ pdf_num' = 0
            /\ pdfs_crees' = <<>>
       /\ pc = "abandon" => pc' = "abandon"]_vars

C11_Witness ==
    /\ pc = "split_retour"
    /\ Len(erreurs) = 2
    /\ Len(fichiers) = 1
    /\ pdfs_crees # <<>>

\* nothing of the download or of the split has happened
RienCommence ==
    /\ taches = <<>>
    /\ file_attente = <<>>
    /\ \A p \in Pages : etat[p] = "absent" /\ tentatives[p] = 0
    /\ ~dossier
    /\ DOMAIN disque = {}
    /\ fichiers = <<>>
    /\ pdfs_crees = <<>>

\* C12: when analyser_url does not recognise the sample URL, no task is ever
\* created or started, OUTPUT_DIR is not created and no PDF is written.
C12_AvantReseau ==
    /\ AnalyserUrl(EXEMPLE_URL) = PatternAucun => RienCommence
    /\ pc = "invalide" => AnalyserUrl(EXEMPLE_URL) = PatternAucun

C12_Witness == pc = "invalide" /\ EXEMPLE_URL = UrlInconnue /\ NB_PAGES = 3

\* ------------------------------------------- properties of the URL pattern
RECURSIVE Valeur(_)
\* the number written by a run of digits
Valeur(ch) == IF ch = <<>> THEN 0
              ELSE 10 * Valeur(SubSeq(ch, 1, Len(ch) - 1)) + (ch[Len(ch)] - 48)

RECURSIVE ChiffresFinaux(_)
\* number of digits at the end of s
ChiffresFinaux(s) ==
    IF s = <<>> \/ ~EstChiffre(s[Len(s)]) THEN 0
    ELSE 1 + ChiffresFinaux(SubSeq(s, 1, Len(s) - 1))

UrlDecodee == Unquote(EXEMPLE_URL)
\* the number in the 4-digit folder segment of a sample of the folder shape
NumeroDossier ==
    Valeur(SubSeq(UrlDecodee, Len(pattern.prefix) + 1, Len(pattern.prefix) + 4))

\* C13: for every sample URL u that analyser_url classifies as "dossier",
\* generer_url(analyser_url(u), n) equals u exactly when n is the number of
\* u's 4-digit folder segment.
C13_AllerRetour ==
    (pc = "submit" /\ pattern.type = "dossier") =>
        \A i \in DOMAIN taches :
            (taches[i].url = EXEMPLE_URL) <=> (taches[i].page = NumeroDossier)

\* the sample ends in k >= 1 digits and ".jpg" and is not of the folder shape
FinSimple ==
    /\ DebutsDossier(UrlDecodee) = {}
    /\ Len(UrlDecodee) >= 5
    /\ SubSeq(UrlDecodee, Len(UrlDecodee) - 3, Len(UrlDecodee)) = <<46, 106, 112, 103>>
    /\ ChiffresFinaux(SubSeq(UrlDecodee, 1, Len(UrlDecodee) - 4)) >= 1
LargeurObservee == ChiffresFinaux(SubSeq(UrlDecodee, 1, Len(UrlDecodee) - 4))

\* C14: a sample URL that is not of the folder shape and ends in a run of
\* k >= 1 digits followed by ".jpg" gives the "simple" pattern with digits = k
\* and prefix = everything before the run, and the URLs of the tasks carry
\* the page number padded to k digits.
C14_LargeurSimple ==
    (pc # "analyse" /\ FinSimple) =>
        /\ pattern.type = "simple"
        /\ pattern.digits = LargeurObservee
        /\ pattern.prefix =
              SubSeq(UrlDecodee, 1, Len(UrlDecodee) - 4 - LargeurObservee)
        /\ \A i \in DOMAIN taches :
              taches[i].url = pattern.prefix
                  \o FormatZero(taches[i].page, LargeurObservee) \o pattern.suffix

\* --------------------------------------- properties of the split, continued
CoutsPages == {im.ko : im \in {x \in Images : x.lisible}}

\* the step writes a PDF from a full batch of pages_par_pdf readable pages
\* of s Ko each, and this PDF weighs more than 1.10 x the ceiling
C15_Depassement(s) ==
    /\ pc = "split_boucle"
    /\ Len(pdfs_crees') = Len(pdfs_crees) + 1
    /\ LET b == pdfs_crees'[Len(pdfs_crees')]
           c == contenu'[Len(contenu')]
       IN  /\ b.pages = pages_par_pdf
           /\ \A j \in DOMAIN c : disque[fichiers[c[j]]].ko = s
           /\ b.taille = pages_par_pdf * s
           /\ b.taille * 10 > max_size_ko * 11

\* C15 as stated: after an overshoot with pages of one fixed size, the new
\* estimate x the page size is within [0.90 x ceiling, 1.10 x ceiling].
C15_Bande ==
    [][\A s \in CoutsPages :
          C15_Depassement(s) =>
              /\ pages_par_pdf' * s * 10 >= max_size_ko * 9
              /\ pages_par_pdf' * s * 10 <= max_size_ko * 11]_vars

\* C15 (amended): after an overshoot with pages of one fixed size, the new
\* estimate is floor(ceiling / page size): the new estimate x the page size
\* is at most the ceiling, and one page more would exceed the ceiling.
C15_Plancher ==
    [][\A s \in CoutsPages :
          C15_Depassement(s) =>
              /\ pages_par_pdf' * s <= max_size_ko
              /\ (pages_par_pdf' + 1) * s > max_size_ko]_vars

C15_Witness ==
    /\ pc = "split_boucle"
    /\ max_size_ko = 700
    /\ Len(fichiers) >= 3
    /\ pdfs_crees = << [num |-> 1, taille |-> 800, pages |-> 2] >>
    /\ idx = 2
    /\ pages_par_pdf = 1

\* C16 as stated: at the start of every iteration the estimate is at most
\* the number of files after the cursor.
C16_Plafonne ==
    (pc = "split_boucle" /\ idx < Len(fichiers)) =>
        pages_par_pdf <= Len(fichiers) - idx

TotalLectures == Somme([i \in DOMAIN lectures |-> lectures[i]])

\* C16 (amended): the seed estimate is at most the number of files, and every
\* iteration opens min(estimate, files after the cursor) files, never more
\* than the files after the cursor.
C16_LotBorne ==
    [][/\ pc = "split_debut" => pages_par_pdf' <= Len(fichiers)
       /\ (pc = "split_boucle" /\ idx < Len(fichiers)) =>
            /\ TotalLectures' - TotalLectures = Min(pages_par_pdf, Len(fichiers) - idx)
            /\ \A i \in DOMAIN lectures :
                  lectures'[i] # lectures[i] => (i > idx /\ i <= Len(fichiers))]_vars

C16_Witness ==
    /\ pc = "split_retour"
    /\ Len(pdfs_crees) = 2
    /\ pdfs_crees[2].pages = 1
    /\ pages_par_pdf >= 2
    /\ TotalLectures = Len(fichiers)
    /\ TousLisibles

\* C17: at the start of every iteration the estimate is at least 1, so the
\* batch is not empty and the cursor moves forward.
C17_Progression ==
    (pc = "split_boucle" /\ idx < Len(fichiers)) => pages_par_pdf >= 1

Inachevees == {p \in Pages : etat[p] # "recolte"}

\* C18: the sort and creer_pdf_split start only after every task has
\* returned and was collected; while a task is not finished no PDF exists and
\* no downloaded page file has been removed.
C18_Barriere ==
    /\ pc \in {"bilan", "abandon", "split_debut", "split_boucle", "split_retour", "fin"}
          => Inachevees = {}
    /\ Inachevees # {} =>
          /\ pdfs_crees = <<>>
          /\ pdf_num = 0
          /\ \A p \in Terminees :
                resultat[p].filename # Aucun => resultat[p].filename \in DOMAIN disque

C18_Witness ==
    /\ pc = "split_boucle"
    /\ NB_PAGES = 3
    /\ NB_THREADS = 2
    /\ pdfs_crees # <<>>
    /\ erreurs # <<>>

\* the positions opened by the step
LusParLePas == {i \in DOMAIN lectures : lectures'[i] # lectures[i]}

\* C19: the PDFs carry the numbers 1, 2, ..., k in the order of creation; a
\* batch without a readable page creates no PDF and uses no number; a
\* recorded PDF is never changed or removed.
C19_Numerotation ==
    [][/\ \A k \in DOMAIN pdfs_crees' : pdfs_crees'[k].num = k
       /\ pc' \in {"split_boucle", "split_retour"} => pdf_num' = Len(pdfs_crees') + 1
       /\ Len(pdfs_crees') >= Len(pdfs_crees)
       /\ SubSeq(pdfs_crees', 1, Len(pdfs_crees)) = pdfs_crees
       /\ (pc = "split_boucle" /\ \A i \in LusParLePas : ~disque[fichiers[i]].lisible)
            => (pdfs_crees' = pdfs_crees /\ pdf_num' = pdf_num)]_vars

C19_Witness ==
    /\ pc = "split_retour"
    /\ max_size_ko = 350
    /\ ~disque[fichiers[1]].lisible
    /\ Len(pdfs_crees) >= 2

RECURSIVE Aplatir(_)
Aplatir(ss) == IF ss = <<>> THEN <<>> ELSE Head(ss) \o Aplatir(Tail(ss))

\* C20: the pages of every PDF are the readable files of one contiguous slice
\* of fichiers, in the order of fichiers; the PDFs follow one another in that
\* order; at the return the PDFs put end to end are fichiers without the
\* unreadable files.
C20_Ordre ==
    LET tout == Aplatir(contenu)
    IN  /\ \A i, j \in DOMAIN tout : i < j => tout[i] < tout[j]
        /\ \A k \in DOMAIN contenu :
              /\ contenu[k] # <<>>
              /\ \A q \in contenu[k][1]..contenu[k][Len(contenu[k])] :
                    disque[fichiers[q]].lisible
                        => \E j \in DOMAIN contenu[k] : contenu[k][j] = q
        /\ pc = "split_retour" =>
              tout = SelectSeq([i \in 1..Len(fichiers) |-> i],
                               LAMBDA i : disque[fichiers[i]].lisible)

C20_Witness ==
    /\ pc = "split_retour"
    /\ Len(contenu) >= 2
    /\ \E k \in DOMAIN contenu : \E j \in 1..(Len(contenu[k]) - 1) :
          contenu[k][j + 1] > contenu[k][j] + 1

====
